---- MODULE Spec2Model ----
(***************************************************************************)
(* The signup form of src/index.js: a useFormik() form with three text     *)
(* fields, a Yup validation schema, the change / blur / submit handlers    *)
(* bound to the inputs, and the conditional rendering of error messages.   *)
(*                                                                         *)
(* A string is a sequence of one-character strings, so that its length and *)
(* its shape are computed rather than assumed.                             *)
(***************************************************************************)
EXTENDS Integers, Sequences, FiniteSets, TLC

VARIABLES
    values,     \* formik.values : field -> string
    touched,    \* formik.touched: field -> BOOLEAN (absent key = FALSE)
    errors,     \* formik.errors : partial map field -> message
    calls,      \* arguments onSubmit was invoked with by the latest handler
    lastEvent,  \* history: "mount", "change", "blur" or "submit"
    visited,    \* history: the fields that received a blur event
    attempted,  \* history: a submit event has been handled
    rejected    \* history: some submit event was blocked by validation

vars == <<values, touched, errors, calls, lastEvent, visited, attempted, rejected>>

----------------------------------------------------------------------------
(* Program constants and the strings the inputs are drawn from.            *)

FirstNameMax == 15
LastNameMax == 20

\* How far around each length limit the typed strings reach.
Slack == 1

Fields == {"firstName", "lastName", "email"}

Required == "Required"
TooLongFirst == "Must be 15 characters or less"
TooLongLast == "Must be 20 characters or less"
InvalidFormat == "Invalid email address"

Rep(c, n) == [i \in 1..n |-> c]

Empty == << >>

GoodEmail == <<"a", "@", "a", ".", "a">>

NearLimit(n) == (n - Slack + 1) .. (n + Slack)

\* What a change event can put into a field: the empty string, runs of
\* letters whose lengths straddle both limits, and a well-formed address.
Inputs ==
    {Empty, GoodEmail}
        \cup {Rep("a", n) : n \in NearLimit(FirstNameMax) \cup NearLimit(LastNameMax)}

----------------------------------------------------------------------------
(* Validation: Yup.object({...}) as used by Formik.                        *)

Positions(s, c) == {i \in 1..Len(s) : s[i] = c}

\* local@label.label with one "@", a non-empty local part and a dotted domain
\* whose labels are non-empty.
EmailShape(s) ==
    /\ Cardinality(Positions(s, "@")) = 1
    /\ LET at == CHOOSE i \in Positions(s, "@") : TRUE
           dots == {i \in Positions(s, ".") : i > at}
       IN  /\ at > 1
           /\ dots # {}
           /\ \A i \in Positions(s, ".") : i > at
           /\ \A i \in dots : i > at + 1 /\ i < Len(s) /\ (i + 1) \notin dots

MaxRule(n, msg) == [kind |-> "max", limit |-> n, message |-> msg]
RequiredRule(msg) == [kind |-> "required", limit |-> 0, message |-> msg]
EmailRule(msg) == [kind |-> "email", limit |-> 0, message |-> msg]

initialValues == [f \in Fields |-> Empty]

\* The schema with .required() left off the email field.
validationSchemaEmailOptional ==
    [f \in Fields |->
        CASE f = "firstName" -> <<MaxRule(FirstNameMax, TooLongFirst), RequiredRule(Required)>>
          [] f = "lastName"  -> <<MaxRule(LastNameMax, TooLongLast), RequiredRule(Required)>>
          [] f = "email"     -> <<EmailRule(InvalidFormat)>>]

\* The schema with lastName's .max(20, ...) pasted onto firstName.
validationSchemaPastedMax ==
    [f \in Fields |->
        CASE f = "firstName" -> <<MaxRule(LastNameMax, TooLongLast), RequiredRule(Required)>>
          [] f = "lastName"  -> <<MaxRule(LastNameMax, TooLongLast), RequiredRule(Required)>>
          [] f = "email"     -> <<EmailRule(InvalidFormat), RequiredRule(Required)>>]

\* The schema with .required() left off lastName.
validationSchemaLastOptional ==
    [f \in Fields |->
        CASE f = "firstName" -> <<MaxRule(FirstNameMax, TooLongFirst), RequiredRule(Required)>>
          [] f = "lastName"  -> <<MaxRule(LastNameMax, TooLongLast)>>
          [] f = "email"     -> <<EmailRule(InvalidFormat), RequiredRule(Required)>>]

validationSchema ==
    [f \in Fields |->
        CASE f = "firstName" -> <<MaxRule(FirstNameMax, TooLongFirst), RequiredRule(Required)>>
          [] f = "lastName"  -> <<MaxRule(LastNameMax, TooLongLast), RequiredRule(Required)>>
          [] f = "email"     -> <<EmailRule(InvalidFormat), RequiredRule(Required)>>]

\* Whether value v breaks one rule.
violates(rule, v) ==
    CASE rule.kind = "max"      -> Len(v) > rule.limit
      [] rule.kind = "required" -> Len(v) = 0
      [] rule.kind = "email"    -> Len(v) > 0 /\ ~EmailShape(v)

\* The rules of a field that v breaks, in declared order.
failures(rules, v) == SelectSeq(rules, LAMBDA r : violates(r, v))

\* One message per failing field: that of its first failing rule.
validate(vals, schema) ==
    [f \in {g \in Fields : failures(schema[g], vals[g]) # << >>}
        |-> Head(failures(schema[f], vals[f])).message]

NoErrors == [f \in {} |-> Required]

isValid(errs) == DOMAIN errs = {}

----------------------------------------------------------------------------
(* The form.                                                               *)

\* onSubmit: (values) => alert(...): one invocation, with the values given.
onSubmit(vals) == <<vals>>

\* {formik.touched.f && formik.errors.f ? <div>..</div> : null}
shown(f) == touched[f] /\ f \in DOMAIN errors

\* A submit that leaves the touched flags as they are.
setAllTouchedSkipped == touched

setAllTouched == [f \in Fields |-> TRUE]

Init ==
    /\ values = initialValues
    /\ touched = [f \in Fields |-> FALSE]
    /\ errors = NoErrors
    /\ calls = << >>
    /\ lastEvent = "mount"
    /\ visited = {}
    /\ attempted = FALSE
    /\ rejected = FALSE

\* A change handler that stores the value without validating again.
handleChangeStale(f, v) ==
    /\ values' = [values EXCEPT ![f] = v]
    /\ calls' = << >>
    /\ lastEvent' = "change"
    /\ UNCHANGED <<errors, touched, visited, attempted, rejected>>

\* A change handler that also marks the field touched.
handleChangeTouching(f, v) ==
    /\ values' = [values EXCEPT ![f] = v]
    /\ touched' = [touched EXCEPT ![f] = TRUE]
    /\ errors' = validate(values', validationSchema)
    /\ calls' = << >>
    /\ lastEvent' = "change"
    /\ UNCHANGED <<visited, attempted, rejected>>

handleChange(f, v) ==
    /\ values' = [values EXCEPT ![f] = v]
    /\ errors' = validate(values', validationSchema)
    /\ calls' = << >>
    /\ lastEvent' = "change"
    /\ UNCHANGED <<touched, visited, attempted, rejected>>

\* A blur handler that flips the flag instead of setting it.
handleBlurToggling(f) ==
    /\ touched' = [touched EXCEPT ![f] = ~touched[f]]
    /\ errors' = validate(values, validationSchema)
    /\ calls' = << >>
    /\ lastEvent' = "blur"
    /\ visited' = visited \cup {f}
    /\ UNCHANGED <<values, attempted, rejected>>

handleBlur(f) ==
    /\ touched' = [touched EXCEPT ![f] = TRUE]
    /\ errors' = validate(values, validationSchema)
    /\ calls' = << >>
    /\ lastEvent' = "blur"
    /\ visited' = visited \cup {f}
    /\ UNCHANGED <<values, attempted, rejected>>

\* A submit handler that calls onSubmit whatever validation found.
handleSubmitUnchecked ==
    /\ touched' = setAllTouched
    /\ errors' = validate(values, validationSchema)
    /\ calls' = onSubmit(values)
    /\ lastEvent' = "submit"
    /\ attempted' = TRUE
    /\ rejected' = (rejected \/ ~isValid(errors'))
    /\ UNCHANGED <<values, visited>>

\* A submit handler that hands onSubmit the initial values.
handleSubmitInitial ==
    /\ touched' = setAllTouched
    /\ errors' = validate(values, validationSchema)
    /\ calls' = IF isValid(errors') THEN onSubmit(initialValues) ELSE << >>
    /\ lastEvent' = "submit"
    /\ attempted' = TRUE
    /\ rejected' = (rejected \/ ~isValid(errors'))
    /\ UNCHANGED <<values, visited>>

\* A submit handler that stays blocked once a submit has been rejected.
handleSubmitSticky ==
    /\ ~rejected
    /\ touched' = setAllTouched
    /\ errors' = validate(values, validationSchema)
    /\ calls' = IF isValid(errors') THEN onSubmit(values) ELSE << >>
    /\ lastEvent' = "submit"
    /\ attempted' = TRUE
    /\ rejected' = (rejected \/ ~isValid(errors'))
    /\ UNCHANGED <<values, visited>>

handleSubmit ==
    /\ touched' = setAllTouched
    /\ errors' = validate(values, validationSchema)
    /\ calls' = IF isValid(errors') THEN onSubmit(values) ELSE << >>
    /\ lastEvent' = "submit"
    /\ attempted' = TRUE
    /\ rejected' = (rejected \/ ~isValid(errors'))
    /\ UNCHANGED <<values, visited>>

Change == \E f \in Fields, v \in Inputs : handleChange(f, v)

Blur == \E f \in Fields : handleBlur(f)

Submit == handleSubmit

Next == Change \/ Blur \/ Submit

Spec == Init /\ [][Next]_vars

----------------------------------------------------------------------------
(* Properties.                                                             *)

hasError(f, msg) == f \in DOMAIN errors /\ errors[f] = msg

validated == lastEvent # "mount"

\* C1: a submit invokes onSubmit if and only if validating the values held
\* at the submit finds no error; with firstName empty and the other two
\* fields valid, onSubmit is not invoked and errors.firstName is Required.
C1_SubmitBlockedIffErrors ==
    lastEvent = "submit" =>
        /\ (calls # << >>) <=> isValid(validate(values, validationSchema))
        /\ values["firstName"] = Empty =>
              calls = << >> /\ hasError("firstName", Required)

C1_Witness ==
    /\ lastEvent = "submit"
    /\ values["firstName"] = Empty
    /\ Len(values["lastName"]) \in 1..LastNameMax
    /\ EmailShape(values["email"])
    /\ calls = << >>
    /\ errors = [f \in {"firstName"} |-> Required]

\* C2: a submit whose values validate without error invokes onSubmit exactly
\* once, with exactly the values the form held when the submit began, and the
\* submit leaves the values as they were.
C2_AcceptedSubmitCallsOnceWithValues ==
    [][handleSubmit =>
          /\ values' = values
          /\ isValid(validate(values, validationSchema)) => calls' = <<values>>]_vars

C2_Witness ==
    /\ lastEvent = "submit"
    /\ values # initialValues
    /\ calls = <<values>>
    /\ isValid(errors)

\* C3: touched only grows: a flag that is true stays true over every change,
\* blur and submit, and a blur of a field already touched leaves touched as
\* it was.
C3_TouchedMonotonic ==
    [][/\ \A f \in Fields : touched[f] => touched'[f]
       /\ \A f \in Fields : (handleBlur(f) /\ touched[f]) => touched' = touched]_vars

\* A blur of the one field ever blurred, after a submit had touched them all.
C3_Witness ==
    /\ lastEvent = "blur"
    /\ attempted
    /\ Cardinality(visited) = 1
    /\ \A f \in Fields : touched[f]

\* C4 as stated: in every reachable state, from mount on, errors is
\* validate(values, schema).
C4_ErrorsAlwaysValidateValues == errors = validate(values, validationSchema)

\* C4 amended: the freshly mounted form has no errors, and from the first
\* change, blur or submit on, errors is validate(values, schema) for the
\* current values.
C4_ErrorsValidateValuesOnceValidated ==
    IF validated
        THEN errors = validate(values, validationSchema)
        ELSE errors = NoErrors

C4_Witness ==
    /\ lastEvent = "change"
    /\ values["firstName"] # Empty
    /\ ~isValid(errors)
    /\ errors = validate(values, validationSchema)

\* C5: a validated field carries at most one message, that of the first rule
\* in its declared order that its value breaks; an empty email gets Required,
\* and email gets "Invalid email address" exactly when it is non-empty and
\* not of address shape.
C5_FirstFailingRuleWins ==
    validated =>
        /\ \A f \in DOMAIN errors :
              \E i \in 1..Len(validationSchema[f]) :
                  /\ violates(validationSchema[f][i], values[f])
                  /\ \A j \in 1..(i - 1) : ~violates(validationSchema[f][j], values[f])
                  /\ errors[f] = validationSchema[f][i].message
        /\ values["email"] = Empty => hasError("email", Required)
        /\ hasError("email", InvalidFormat)
              <=> (values["email"] # Empty /\ ~EmailShape(values["email"]))

C5_Witness ==
    /\ lastEvent = "change"
    /\ values["email"] = Empty
    /\ values["firstName"] # Empty
    /\ hasError("email", Required)

\* C6: firstName is too long exactly when it has more than 15 characters and
\* lastName exactly when it has more than 20, each with its own message; 15
\* (20) characters give no error, 16 (21) give the too-long message.
C6_MaxLengthInclusive ==
    validated =>
        /\ hasError("firstName", TooLongFirst) <=> Len(values["firstName"]) > 15
        /\ hasError("lastName", TooLongLast) <=> Len(values["lastName"]) > 20
        /\ Len(values["firstName"]) = 15 => "firstName" \notin DOMAIN errors
        /\ Len(values["lastName"]) = 20 => "lastName" \notin DOMAIN errors
        /\ Len(values["firstName"]) = 16 => "firstName" \in DOMAIN errors
        /\ Len(values["lastName"]) = 21 => "lastName" \in DOMAIN errors

C6_Witness ==
    /\ validated
    /\ Len(values["firstName"]) = 16
    /\ hasError("firstName", TooLongFirst)
    /\ Len(values["lastName"]) = 20
    /\ "lastName" \notin DOMAIN errors

\* C7: whenever a validated field is the empty string its error is Required,
\* whatever the other fields hold.
C7_EmptyFieldRequired ==
    validated => \A f \in Fields : values[f] = Empty => hasError(f, Required)

C7_Witness ==
    /\ validated
    /\ values["lastName"] = Empty
    /\ values["firstName"] # Empty
    /\ EmailShape(values["email"])
    /\ errors = [f \in {"lastName"} |-> Required]

\* C8: in the state a submit leaves, accepted or rejected, every field is
\* touched, and so every field with an error has its message displayed.
C8_SubmitTouchesAll ==
    lastEvent = "submit" =>
        /\ \A f \in Fields : touched[f]
        /\ \A f \in DOMAIN errors : shown(f)

\* A rejected submit on a form no field of which was ever blurred.
C8_Witness ==
    /\ lastEvent = "submit"
    /\ visited = {}
    /\ calls = << >>
    /\ DOMAIN errors # {}
    /\ \A f \in DOMAIN errors : shown(f)

\* C9: the form is never stuck: in every reachable state, after a rejected
\* submit too, every change, blur and submit event is still handled, and a
\* submit of valid values after an earlier rejection invokes onSubmit.
C9_NeverStuck ==
    /\ ENABLED handleSubmit
    /\ \A f \in Fields : ENABLED handleBlur(f)
    /\ \A f \in Fields, v \in Inputs : ENABLED handleChange(f, v)
    /\ (rejected /\ lastEvent = "submit" /\ isValid(validate(values, validationSchema)))
          => calls = <<values>>

C9_Witness ==
    /\ rejected
    /\ lastEvent = "submit"
    /\ calls = <<values>>

\* C10: a change event sets only the changed field's value and leaves touched
\* and the other values alone, so a message is displayed only for a field
\* that was blurred, or after a submit was attempted; the freshly mounted
\* form displays none.
C10_ChangeNeverReveals ==
    /\ [](\A f \in Fields : shown(f) => (f \in visited \/ attempted))
    /\ [][\A f \in Fields, v \in Inputs :
             handleChange(f, v) =>
                 /\ touched' = touched
                 /\ values'[f] = v
                 /\ \A g \in Fields \ {f} : values'[g] = values[g]]_vars

\* Errors on all three fields after changes alone, none displayed.
C10_Witness ==
    /\ lastEvent = "change"
    /\ visited = {}
    /\ ~attempted
    /\ DOMAIN errors = Fields
    /\ values # initialValues
    /\ \A f \in Fields : ~shown(f)

====
